---- MODULE Spec2Model ----
(***************************************************************************)
(* A model of the AST index of refact-lsp (src/ast/ast_index.rs): the two  *)
(* global maps, the two per-file keysets, add_or_update, remove, the       *)
(* declaration/usage linker and the query pipeline.                        *)
(***************************************************************************)
EXTENDS Integers, Sequences, FiniteSets, TLC

VARIABLES
    ast_index,   \* the AstIndex value (its four fields)
    pre,         \* the AstIndex value before the last operation
    last,        \* the last operation: its name, arguments and result
    before,      \* the operation before the last one
    tracked,     \* the documents added with success and not removed since, each with
                 \* the text of its last successful add_or_update
    link_in,     \* the linker alone: its declarations, usages and iteration order
    link_out,    \* the linker alone: the usages it leaves (<<>> before it ran)
    writer,      \* the add_or_update in progress: where it is and what it parsed
    reader,      \* the reader in progress: where it is and the index it read
    stable,      \* the last write: its file, the index before it and the index it leaves
    found,       \* the search in progress: its arguments and its results
    walk         \* get_namespace alone: the ancestors it is given and what it returns

index_vars == <<ast_index, pre, last, before, tracked>>

link_vars == <<link_in, link_out>>

conc_vars == <<writer, reader, stable>>

vars == <<ast_index, pre, last, before, tracked, link_in, link_out, writer, reader, stable, found, walk>>

-----------------------------------------------------------------------------
(* Values                                                                  *)

\* Option::None of an Option<String>
None == "<None>"

\* Result::Ok(value) and Result::Err(..) of a parser
Ok(value) == [ok |-> TRUE, value |-> value]

Err == [ok |-> FALSE, value |-> <<>>]

\* HashMap::new()
EmptyMap == [k \in {} |-> None]

\* the documents of the workspace; "notes.txt" has an extension no parser handles
Files == {"a.cpp", "b.cpp", "notes.txt"}

\* get_parser_by_filename(path) is Ok
has_parser(path) == path \in {"a.cpp", "b.cpp"}

\* the source texts a document may hold
Texts ==
    { "empty",          \* ""
      "foo_calls_g",    \* int foo(){ g(); }
      "foo_below",      \* two blank rows, then int foo(){ on row 2 and } on row 3
      "bar_calls_g",    \* int bar(){ g(); }
      "class_Array",    \* class Array { / void print(){ g(); g(); } / };   (rows 0..2)
      "loose_call",     \* g(); on row 0, int foo(){} on row 1
      "broken",         \* a text parse_declarations rejects
      "broken_usages" } \* a text parse_usages rejects

\* a SymbolDeclarationStruct: meta_path, name, definition_info.path and .range rows
Decl(meta_path, name, path, start_row, end_row) ==
    [meta_path |-> meta_path, name |-> name, path |-> path,
     start_row |-> start_row, end_row |-> end_row]

\* a UsageSymbolInfo: meta_path(), get_range() rows, get_declaration_meta_path();
\* doc is the document the occurrence lies in
Usage(meta_path, path, start_row, end_row) ==
    [meta_path |-> meta_path, doc |-> path, start_row |-> start_row,
     end_row |-> end_row, declaration_meta_path |-> None]

\* LanguageParser::parse_declarations(text, path): a map from symbol path to
\* declaration record, or an error
parse_declarations(text, path) ==
    CASE text = "empty" -> Ok(EmptyMap)
      [] text = "foo_calls_g" -> Ok([k \in {"foo"} |-> Decl("foo", "foo", path, 0, 0)])
      [] text = "foo_below" -> Ok([k \in {"foo"} |-> Decl("foo", "foo", path, 2, 3)])
      [] text = "bar_calls_g" -> Ok([k \in {"bar"} |-> Decl("bar", "bar", path, 0, 0)])
      [] text = "class_Array" ->
            Ok([k \in {"Array", "Array::print"} |->
                IF k = "Array" THEN Decl("Array", "Array", path, 0, 2)
                ELSE Decl("Array::print", "print", path, 1, 1)])
      [] text = "loose_call" -> Ok([k \in {"foo"} |-> Decl("foo", "foo", path, 1, 1)])
      [] text = "broken_usages" -> Ok([k \in {"foo"} |-> Decl("foo", "foo", path, 0, 0)])
      [] OTHER -> Err

\* LanguageParser::parse_usages(text): the usages in source order, unlinked,
\* or an error
parse_usages(text, path) ==
    CASE text = "empty" -> Ok(<<>>)
      [] text = "foo_calls_g" -> Ok(<<Usage("g::0", path, 0, 0)>>)
      [] text = "foo_below" -> Ok(<<>>)
      [] text = "bar_calls_g" -> Ok(<<Usage("g::0", path, 0, 0)>>)
      [] text = "class_Array" -> Ok(<<Usage("g::1", path, 1, 1), Usage("g::1", path, 1, 1)>>)
      [] text = "loose_call" -> Ok(<<Usage("g::0", path, 0, 0)>>)
      [] OTHER -> Err

\* the iteration orders of a HashMap with the key set S
Orders(S) ==
    {s \in [1..Cardinality(S) -> S] : \A i, j \in 1..Cardinality(S) : i # j => s[i] # s[j]}

-----------------------------------------------------------------------------
(* The linker                                                              *)

\* within_range without the comparison of the end rows
within_range_by_start(decl, usage) ==
    decl.start_row <= usage.start_row

\* within_range(decl_range, usage_range)
within_range(decl, usage) ==
    decl.start_row <= usage.start_row /\ decl.end_row >= usage.end_row

\* std::cmp::max
max(a, b) == IF a >= b THEN a ELSE b

\* Option<usize>: None is <<>>, Some(n) is <<n>>
unwrap_or(option, default) == IF option = <<>> THEN default ELSE option[1]

\* the update condition of the inner loop of link_declarations_to_usages
closer(closest_declaration, closest_declaration_rows_count, distance) ==
    \/ closest_declaration = None
    \/ unwrap_or(closest_declaration_rows_count, distance + 1) < distance

\* the inner loop of link_declarations_to_usages over the declarations in the
\* map's iteration order; acc is <<closest_declaration, closest_declaration_rows_count>>
RECURSIVE scan_declarations(_, _, _, _)
scan_declarations(declarations, order, usage, acc) ==
    IF order = <<>> THEN acc
    ELSE LET meta_path == Head(order)
             declaration == declarations[meta_path]
             distance == max(declaration.end_row - declaration.start_row, 0)
             next == IF within_range(declaration, usage) /\ closer(acc[1], acc[2], distance)
                     THEN <<meta_path, <<distance>> >>
                     ELSE acc
         IN scan_declarations(declarations, Tail(order), usage, next)

\* link_declarations_to_usages(declarations, usages): every usage gets the path
\* the scan ends with, or stays unset
link_declarations_to_usages(declarations, usages, order) ==
    [i \in 1..Len(usages) |->
        LET closest_declaration == scan_declarations(declarations, order, usages[i], <<None, <<>> >>)[1]
        IN IF closest_declaration = None THEN usages[i]
           ELSE [usages[i] EXCEPT !.declaration_meta_path = closest_declaration]]

-----------------------------------------------------------------------------
(* The index                                                               *)

\* AstIndex::init()
init ==
    [declarations |-> EmptyMap,
     declarations_search_index |-> EmptyMap,
     usages |-> EmptyMap,
     usages_search_index |-> EmptyMap]

\* HashMap::remove of every key of a set
without(map, keys) == [k \in (DOMAIN map) \ keys |-> map[k]]

\* HashMap::insert
insert(map, key, value) ==
    [k \in (DOMAIN map) \cup {key} |-> IF k = key THEN value ELSE map[k]]

\* the keys a Set<Vec<u8>> of a per-file index holds (none when the file has no set)
keys_of(search_index, path) ==
    IF path \in DOMAIN search_index THEN search_index[path] ELSE {}

\* the symbol paths of the texts, in the byte order an fst::Set streams them
byte_order == <<"Array", "Array::print", "bar", "foo", "g::0", "g::1">>

\* the keys of a set, as its stream yields them
stream(keys) == SelectSeq(byte_order, LAMBDA k : k \in keys)

\* the place of a key in the byte order
rank(key) == CHOOSE i \in 1..Len(byte_order) : byte_order[i] = key

\* a Vec<String>: the names as they were pushed
unsorted_vec(names) == names

\* a SortedVec<String> after the push of every name: the names in byte order,
\* equal names kept
RECURSIVE sorted_vec(_)
sorted_vec(names) ==
    IF names = <<>> THEN <<>>
    ELSE LET rest == sorted_vec(SubSeq(names, 1, Len(names) - 1))
             x == names[Len(names)]
             n == Cardinality({i \in 1..Len(rest) : rank(rest[i]) <= rank(x)})
         IN SubSeq(rest, 1, n) \o <<x>> \o SubSeq(rest, n + 1, Len(rest))

\* Set::from_iter(names): the builder rejects a key below the key before it and
\* accepts a key equal to it
set_from_iter(names) ==
    IF \A i \in 1..(Len(names) - 1) : rank(names[i]) <= rank(names[i + 1])
    THEN Ok({names[i] : i \in 1..Len(names)})
    ELSE Err

\* AstIndex::get_symbols_by_file_path: the records stored under the keys of the
\* file's declaration keyset, or an error when the file has no keyset
get_symbols_by_file_path(index, path) ==
    IF path \in DOMAIN index.declarations_search_index
    THEN LET names == SelectSeq(stream(index.declarations_search_index[path]),
                                LAMBDA name : name \in DOMAIN index.declarations)
         IN Ok([i \in 1..Len(names) |-> index.declarations[names[i]]])
    ELSE Err

\* remove without the loop over the declaration keyset (lines 133-142)
remove_keeps_declarations(index, path) ==
    [declarations |-> index.declarations,
     declarations_search_index |-> without(index.declarations_search_index, {path}),
     usages |-> without(index.usages, keys_of(index.usages_search_index, path)),
     usages_search_index |-> without(index.usages_search_index, {path})]

\* remove without the loop over the usage keyset (lines 145-154)
remove_keeps_usages(index, path) ==
    [declarations |-> without(index.declarations, keys_of(index.declarations_search_index, path)),
     declarations_search_index |-> without(index.declarations_search_index, {path}),
     usages |-> index.usages,
     usages_search_index |-> without(index.usages_search_index, {path})]

\* remove without usages_search_index.remove(&path)
remove_leaves_usage_keyset(index, path) ==
    [declarations |-> without(index.declarations, keys_of(index.declarations_search_index, path)),
     declarations_search_index |-> without(index.declarations_search_index, {path}),
     usages |-> without(index.usages, keys_of(index.usages_search_index, path)),
     usages_search_index |-> index.usages_search_index]

\* remove with HashMap::clear on the two global maps
remove_clears_maps(index, path) ==
    [declarations |-> EmptyMap,
     declarations_search_index |-> without(index.declarations_search_index, {path}),
     usages |-> EmptyMap,
     usages_search_index |-> without(index.usages_search_index, {path})]

\* AstIndex::remove
remove(index, path) ==
    [declarations |-> without(index.declarations, keys_of(index.declarations_search_index, path)),
     declarations_search_index |-> without(index.declarations_search_index, {path}),
     usages |-> without(index.usages, keys_of(index.usages_search_index, path)),
     usages_search_index |-> without(index.usages_search_index, {path})]

\* add_or_update, lines 99-102: every declaration goes into the global map
store_declarations(index, declarations) ==
    [index EXCEPT
        !.declarations =
            [k \in (DOMAIN index.declarations) \cup (DOMAIN declarations) |->
                IF k \in DOMAIN declarations THEN declarations[k] ELSE index.declarations[k]]]

\* add_or_update, lines 98-108: the declarations go into the global map and
\* their paths become the file's declaration keyset
insert_declarations(index, path, declarations) ==
    [index EXCEPT
        !.declarations =
            [k \in (DOMAIN index.declarations) \cup (DOMAIN declarations) |->
                IF k \in DOMAIN declarations THEN declarations[k] ELSE index.declarations[k]],
        !.declarations_search_index = insert(@, path, DOMAIN declarations)]

\* add_or_update, lines 112-115: usages.entry(meta_path).or_default().push(usage)
\* for every usage in order
RECURSIVE push_usages(_, _)
push_usages(usages_map, usages) ==
    IF usages = <<>> THEN usages_map
    ELSE LET usage == Head(usages)
             bucket == IF usage.meta_path \in DOMAIN usages_map
                       THEN usages_map[usage.meta_path] ELSE <<>>
         IN push_usages(insert(usages_map, usage.meta_path, Append(bucket, usage)), Tail(usages))

\* add_or_update, lines 112-115: every usage goes into its bucket
store_usages(index, usages) ==
    [index EXCEPT !.usages = push_usages(@, usages)]

\* add_or_update, lines 110-120
insert_usages(index, path, usages) ==
    [index EXCEPT
        !.usages = push_usages(@, usages),
        !.usages_search_index = insert(@, path, {usages[i].meta_path : i \in 1..Len(usages)})]

\* the error add_or_update returns before it writes (lines 66-89), or "ok"
failure(path, readable, text) ==
    IF ~has_parser(path) THEN "unsupported_language"
    ELSE IF ~readable THEN "io_error"
    ELSE IF ~parse_declarations(text, path).ok \/ ~parse_usages(text, path).ok
         THEN "parse_error"
    ELSE "ok"

\* add_or_update with the old data removed before the file is read and parsed
add_or_update_removes_first(index, path, readable, text, order) ==
    IF ~has_parser(path) THEN [index |-> index, res |-> "unsupported_language"]
    ELSE IF failure(path, readable, text) # "ok"
         THEN [index |-> remove(index, path), res |-> failure(path, readable, text)]
    ELSE LET declarations == parse_declarations(text, path).value
             usages == link_declarations_to_usages(declarations, parse_usages(text, path).value, order)
         IN [index |-> insert_usages(insert_declarations(remove(index, path), path, declarations),
                                     path, usages),
             res |-> "ok"]

\* add_or_update without the removal of the old data (lines 92-96)
add_or_update_keeps_old(index, path, readable, text, order) ==
    IF failure(path, readable, text) # "ok"
    THEN [index |-> index, res |-> failure(path, readable, text)]
    ELSE LET declarations == parse_declarations(text, path).value
             usages == link_declarations_to_usages(declarations, parse_usages(text, path).value, order)
         IN [index |-> insert_usages(insert_declarations(index, path, declarations), path, usages),
             res |-> "ok"]

\* AstIndex::add_or_update: the index it leaves and the result it returns
add_or_update(index, path, readable, text, order) ==
    IF failure(path, readable, text) # "ok"
    THEN [index |-> index, res |-> failure(path, readable, text)]
    ELSE LET declarations == parse_declarations(text, path).value
             usages == link_declarations_to_usages(declarations, parse_usages(text, path).value, order)
             removed == remove(index, path)
             meta_names == sorted_vec(order)
             usages_meta_names == sorted_vec([i \in 1..Len(usages) |-> usages[i].meta_path])
         IN IF ~set_from_iter(meta_names).ok
            THEN [index |-> store_declarations(removed, declarations), res |-> "set_error"]
            ELSE IF ~set_from_iter(usages_meta_names).ok
            THEN [index |-> store_usages(insert_declarations(removed, path, declarations), usages),
                  res |-> "set_error"]
            ELSE [index |-> insert_usages(insert_declarations(removed, path, declarations),
                                          path, usages),
                  res |-> "ok"]

-----------------------------------------------------------------------------
(* The operations                                                          *)

\* the text an operation read: none when it failed before reading
NoText == "<no text>"

\* no operation yet
NoOp == [op |-> "init", doc |-> None, text |-> NoText, res |-> "ok"]

\* the linker has no call of its own
NoLink == [declarations |-> EmptyMap, usages |-> <<>>, order |-> <<>>]

\* no add_or_update in progress
IdleWriter == [pc |-> "idle", doc |-> None, declarations |-> EmptyMap, usages |-> <<>>]

\* no reader holds the index
IdleReader == [pc |-> "idle", seen |-> <<>>]

\* no search in progress
NoSearch ==
    [op |-> "none", query |-> "", top_n |-> 0, exception_doc |-> None,
     unreadable |-> {}, results |-> <<>>, panicked |-> FALSE,
     ast_module |-> TRUE, index_paths |-> <<>>]

\* get_namespace has no call of its own
NoWalk == [ancestors |-> <<>>, namespaces |-> <<>>, returned |-> FALSE]

\* no write yet
NoWrite == [doc |-> None, old |-> init, new |-> init]

Init ==
    /\ ast_index = init
    /\ pre = init
    /\ last = NoOp
    /\ before = NoOp
    /\ tracked = EmptyMap
    /\ link_in = NoLink
    /\ link_out = <<>>
    /\ writer = IdleWriter
    /\ reader = IdleReader
    /\ stable = NoWrite
    /\ found = NoSearch
    /\ walk = NoWalk

\* the iteration orders of the declaration map add_or_update parses
parsed_orders(doc, readable, text) ==
    IF failure(doc, readable, text) = "ok"
    THEN Orders(DOMAIN parse_declarations(text, doc).value) ELSE {<<>>}

\* a call of add_or_update(doc): the file is readable or not, holds some text,
\* and the parsed declaration map iterates in some order
AddOrUpdate(doc, readable, text, order) ==
    ast_index' = add_or_update(ast_index, doc, readable, text, order).index

\* a call of remove(doc)
Remove(doc) ==
    ast_index' = remove(ast_index, doc)

\* a call of get_symbols_by_file_path(doc)
SymbolsByFile(doc) ==
    UNCHANGED ast_index

\* the record of an operation: what it was, what it returned, the index before it
Observed(op, doc, text, res) ==
    /\ pre' = ast_index
    /\ last' = [op |-> op, doc |-> doc, text |-> text, res |-> res]
    /\ before' = last
    /\ tracked' = IF op = "add_or_update" /\ res = "ok" THEN insert(tracked, doc, text)
                  ELSE IF op = "remove" THEN without(tracked, {doc})
                  ELSE tracked

Next ==
    \/ \E doc \in Files, text \in Texts :
        \E order \in parsed_orders(doc, TRUE, text) :
            /\ AddOrUpdate(doc, TRUE, text, order)
            /\ Observed("add_or_update", doc, IF has_parser(doc) THEN text ELSE NoText,
                        add_or_update(ast_index, doc, TRUE, text, order).res)
            /\ UNCHANGED <<link_vars, conc_vars, found, walk>>
    \/ \E doc \in Files :
        /\ AddOrUpdate(doc, FALSE, NoText, <<>>)
        /\ Observed("add_or_update", doc, NoText,
                    add_or_update(ast_index, doc, FALSE, NoText, <<>>).res)
        /\ UNCHANGED <<link_vars, conc_vars, found, walk>>
    \/ \E doc \in Files :
        /\ Remove(doc)
        /\ Observed("remove", doc, NoText, "ok")
        /\ UNCHANGED <<link_vars, conc_vars, found, walk>>
    \/ \E doc \in Files :
        /\ SymbolsByFile(doc)
        /\ Observed("get_symbols_by_file_path", doc, NoText,
                    IF get_symbols_by_file_path(ast_index, doc).ok THEN "ok" ELSE "not_indexed")
        /\ UNCHANGED <<link_vars, conc_vars, found, walk>>

Spec == Init /\ [][Next]_vars

-----------------------------------------------------------------------------
(* One writer and one reader of a shared index                             *)

\* add_or_update and remove take &mut self: no other borrow of the index is alive
may_borrow_exclusive(w, r) == w.pc = "idle" /\ r.pc = "idle"

\* a reader's borrow that does not wait for the writer
may_borrow_shared_unguarded(w) == TRUE

\* the readers take &self: no exclusive borrow of the index is alive
may_borrow_shared(w) == w.pc = "idle"

\* add_or_update is called and suspends in read_file().await (lines 64-72);
\* without a parser it returns at once
WriterCall(doc) ==
    /\ may_borrow_exclusive(writer, reader)
    /\ writer' = IF has_parser(doc) THEN [IdleWriter EXCEPT !.pc = "read_file", !.doc = doc]
                 ELSE IdleWriter
    /\ stable' = [doc |-> doc, old |-> ast_index, new |-> ast_index]
    /\ UNCHANGED <<ast_index, reader>>

\* the file is read, parsed and linked (lines 72-90), or the call returns an error
WriterRead(readable, text) ==
    /\ writer.pc = "read_file"
    /\ \E order \in parsed_orders(writer.doc, readable, text) :
        IF failure(writer.doc, readable, text) # "ok"
        THEN writer' = IdleWriter /\ UNCHANGED stable
        ELSE LET declarations == parse_declarations(text, writer.doc).value IN
             /\ writer' = [pc |-> "remove", doc |-> writer.doc,
                           declarations |-> declarations,
                           usages |-> link_declarations_to_usages(
                                declarations, parse_usages(text, writer.doc).value, order)]
             /\ stable' = [stable EXCEPT
                    !.new = add_or_update(ast_index, writer.doc, TRUE, text, order).index]
    /\ UNCHANGED <<ast_index, reader>>

\* the old data of the file is removed (line 93)
WriterRemoveOld ==
    /\ writer.pc = "remove"
    /\ ast_index' = remove(ast_index, writer.doc)
    /\ writer' = [writer EXCEPT !.pc = "insert_declarations"]
    /\ UNCHANGED <<reader, stable>>

\* the declarations and their keyset are inserted (lines 98-108)
WriterInsertDeclarations ==
    /\ writer.pc = "insert_declarations"
    /\ ast_index' = insert_declarations(ast_index, writer.doc, writer.declarations)
    /\ writer' = [writer EXCEPT !.pc = "insert_usages"]
    /\ UNCHANGED <<reader, stable>>

\* the usages and their keyset are inserted, and the call returns (lines 110-127)
WriterInsertUsages ==
    /\ writer.pc = "insert_usages"
    /\ ast_index' = insert_usages(ast_index, writer.doc, writer.usages)
    /\ writer' = IdleWriter
    /\ UNCHANGED <<reader, stable>>

\* a call of remove(doc): it has no suspension point
WriterRemove(doc) ==
    /\ may_borrow_exclusive(writer, reader)
    /\ ast_index' = remove(ast_index, doc)
    /\ stable' = [doc |-> doc, old |-> ast_index, new |-> remove(ast_index, doc)]
    /\ UNCHANGED <<writer, reader>>

\* a reader (search_declarations, search_usages, get_symbols_by_file_path,
\* get_indexed_symbol_paths) is called
ReaderCall ==
    /\ reader.pc = "idle"
    /\ may_borrow_shared(writer)
    /\ reader' = [pc |-> "held", seen |-> <<>>]
    /\ UNCHANGED <<ast_index, writer, stable>>

\* the reader reads the index
ReaderObserve ==
    /\ reader.pc = "held"
    /\ reader' = [reader EXCEPT !.seen = <<ast_index>>]
    /\ UNCHANGED <<ast_index, writer, stable>>

\* the reader returns
ReaderReturn ==
    /\ reader.pc = "held"
    /\ reader' = IdleReader
    /\ UNCHANGED <<ast_index, writer, stable>>

NextConc ==
    \/ \E doc \in Files : WriterCall(doc) /\ UNCHANGED <<pre, last, before, tracked, link_vars, found, walk>>
    \/ \E text \in Texts : WriterRead(TRUE, text) /\ UNCHANGED <<pre, last, before, tracked, link_vars, found, walk>>
    \/ WriterRead(FALSE, NoText) /\ UNCHANGED <<pre, last, before, tracked, link_vars, found, walk>>
    \/ WriterRemoveOld /\ UNCHANGED <<pre, last, before, tracked, link_vars, found, walk>>
    \/ WriterInsertDeclarations /\ UNCHANGED <<pre, last, before, tracked, link_vars, found, walk>>
    \/ WriterInsertUsages /\ UNCHANGED <<pre, last, before, tracked, link_vars, found, walk>>
    \/ \E doc \in Files : WriterRemove(doc) /\ UNCHANGED <<pre, last, before, tracked, link_vars, found, walk>>
    \/ ReaderCall /\ UNCHANGED <<pre, last, before, tracked, link_vars, found, walk>>
    \/ ReaderObserve /\ UNCHANGED <<pre, last, before, tracked, link_vars, found, walk>>
    \/ ReaderReturn /\ UNCHANGED <<pre, last, before, tracked, link_vars, found, walk>>

SpecConc == Init /\ [][NextConc]_vars

\* C2: with one add_or_update and a reader interleaved, what the reader reads
\* is the index as it was before the call or as the call leaves it, never the
\* index between the removal of the old data and the last insertion.
C2_ReaderSeesOldOrNew ==
    reader.seen # <<>> => reader.seen[1] \in {stable.old, stable.new}

\* a reader reads the new entries of an indexed file that was added again with
\* other contents
C2_Witness ==
    /\ reader.seen = <<stable.new>>
    /\ stable.old # stable.new
    /\ keys_of(stable.old.declarations_search_index, stable.doc) # {}
    /\ keys_of(stable.new.declarations_search_index, stable.doc) # {}
    /\ keys_of(stable.old.declarations_search_index, stable.doc)
        # keys_of(stable.new.declarations_search_index, stable.doc)

-----------------------------------------------------------------------------
(* A writer whose caller may stop awaiting it                              *)

\* the record of a call of add_or_update(doc) that has not returned
Pending(doc) == [op |-> "add_or_update", doc |-> doc, text |-> NoText, res |-> "pending"]

\* the caller drops the future of add_or_update while read_file() is pending
\* (line 72), the one await of add_or_update that can suspend: self.remove(..)
\* (line 93) has no await inside and is ready at its first poll. The future is
\* not polled again and its exclusive borrow ends.
Abandon ==
    /\ writer.pc = "read_file"
    /\ writer' = IdleWriter
    /\ UNCHANGED <<ast_index, reader, stable>>

\* the steps of a call that was not abandoned
Run ==
    \/ \E text \in Texts :
        /\ WriterRead(TRUE, text)
        /\ last' = IF failure(writer.doc, TRUE, text) # "ok"
                   THEN [last EXCEPT !.res = failure(writer.doc, TRUE, text)] ELSE last
        /\ UNCHANGED <<pre, before, tracked, link_vars, found, walk>>
    \/ /\ WriterRead(FALSE, NoText)
       /\ last' = [last EXCEPT !.res = failure(writer.doc, FALSE, NoText)]
       /\ UNCHANGED <<pre, before, tracked, link_vars, found, walk>>
    \/ WriterRemoveOld /\ UNCHANGED <<pre, last, before, tracked, link_vars, found, walk>>
    \/ WriterInsertDeclarations /\ UNCHANGED <<pre, last, before, tracked, link_vars, found, walk>>
    \/ /\ WriterInsertUsages
       /\ last' = [last EXCEPT !.res = "ok"]
       /\ UNCHANGED <<pre, before, tracked, link_vars, found, walk>>

NextCancel ==
    \/ \E doc \in Files :
        /\ WriterCall(doc)
        /\ last' = IF has_parser(doc) THEN Pending(doc)
                   ELSE [Pending(doc) EXCEPT !.res = failure(doc, TRUE, NoText)]
        /\ UNCHANGED <<pre, before, tracked, link_vars, found, walk>>
    \/ Run
    \/ /\ Abandon
       /\ last' = [last EXCEPT !.res = "abandoned"]
       /\ UNCHANGED <<pre, before, tracked, link_vars, found, walk>>

\* the executor polls a future that was not dropped, and a read of a file ends
SpecCancel == Init /\ [][NextCancel]_vars /\ WF_vars(Run)

\* the results with which add_or_update returns
Returned == {"ok", "unsupported_language", "io_error", "parse_error", "set_error"}

\* C21: a call of add_or_update that holds the index returns, with Ok or with
\* an error, whether or not its caller stops awaiting it; and a call that has
\* removed the old entries of the file goes on to insert the new keysets.
C21_WriterRunsToCompletion ==
    /\ (last.res = "pending") ~> (last.res \in Returned)
    /\ (writer.pc \in {"remove", "insert_declarations", "insert_usages"}) ~> (last.res = "ok")

-----------------------------------------------------------------------------
(* The query pipeline                                                      *)

\* the query strings: each is used as a regular expression; "foo(" is not one
Queries == {"foo", "arr.*", "r.*", "g.*", ".*", "foo("}

\* dense::Builder::build("(?i)" + query) is Ok (line 33): the pattern parses
is_regex(query) == query \in {"foo", "arr.*", "r.*", "g.*", ".*"}

\* make_a_query unwraps the result of build (line 33): it panics on an Err
make_a_query_panics(query) == ~is_regex(query)

\* the automaton of "(?i)" + query is in a match state after the last byte of key
matches(query, key) ==
    CASE query = "foo" -> key = "foo"
      [] query = "arr.*" -> key \in {"Array", "Array::print"}
      [] query = "r.*" -> key \in {"Array", "Array::print", "bar"}
      [] query = "g.*" -> key \in {"g::0", "g::1"}
      [] query = ".*" -> TRUE
      [] OTHER -> FALSE

\* strsim::jaro_winkler(a, b), in thousandths
jaro_winkler(a, b) ==
    CASE a = b -> 1000
      [] a = "arr.*" /\ b = "Array" -> 600
      [] a = "arr.*" /\ b = "Array::print" -> 505
      [] a = "arr.*" /\ b = "print" -> 466
      [] a = "arr.*" /\ b = "bar" -> 688
      [] a = "r.*" /\ b \in {"Array", "print"} -> 511
      [] a = "r.*" /\ b = "Array::print" -> 472
      [] a = "g.*" /\ b \in {"g::0", "g::1"} -> 575
      [] OTHER -> 0

\* make_a_query: the matching keys of every per-file set but the exception's,
\* as the union stream yields them
make_a_query(nodes_indexes, query_str, exception_doc) ==
    stream(UNION {{k \in nodes_indexes[doc] : matches(query_str, k)} :
                    doc \in (DOMAIN nodes_indexes) \ {exception_doc}})

\* the score of a declaration (lines 177-178): the product of the two
\* similarities, each raised to f32::MIN_POSITIVE when it is 0. A product of
\* two positive similarities is 1000 + their product; MIN_POSITIVE times a
\* positive similarity is that similarity (below every such product); MIN_POSITIVE
\* squared underflows to 0.
declaration_score(query, declaration) ==
    LET by_path == jaro_winkler(query, declaration.meta_path)
        by_name == jaro_winkler(query, declaration.name)
    IN IF by_path > 0 /\ by_name > 0 THEN 1000 + by_path * by_name
       ELSE max(by_path, by_name)

\* a scored candidate: the pair (record, dist) of filtered_search_results
Scored(declaration, dist) == [symbol_declaration |-> declaration, sim_to_query |-> dist]

\* Vec::sort_by on the score, ascending and stable
RECURSIVE sort_by_dist(_)
sort_by_dist(results) ==
    IF results = <<>> THEN <<>>
    ELSE LET sorted == sort_by_dist(SubSeq(results, 1, Len(results) - 1))
             x == results[Len(results)]
             n == Cardinality({i \in 1..Len(sorted) : sorted[i].sim_to_query <= x.sim_to_query})
         IN SubSeq(sorted, 1, n) \o <<x>> \o SubSeq(sorted, n + 1, Len(sorted))

\* the iteration without rev
not_reversed(seq) == seq

\* Iterator::rev
rev(seq) == [i \in 1..Len(seq) |-> seq[Len(seq) + 1 - i]]

\* the iteration without take
take_all(seq, n) == seq

\* Iterator::take
take(seq, n) == SubSeq(seq, 1, IF n < Len(seq) THEN n ELSE Len(seq))

\* the loop of lines 184-201 with a return in the place of `continue`: nothing
\* is returned when the content of a selected result cannot be read
hydrate_or_abort(filtered_search_results, top_n, unreadable) ==
    LET picked == take(rev(sort_by_dist(filtered_search_results)), top_n)
    IN IF \E i \in 1..Len(picked) : picked[i].symbol_declaration.path \in unreadable
       THEN <<>>
       ELSE picked

\* lines 184-201 and 236-253: the top_n results from the highest score down,
\* without those whose content cannot be read
hydrate(filtered_search_results, top_n, unreadable) ==
    SelectSeq(take(rev(sort_by_dist(filtered_search_results)), top_n),
              LAMBDA r : r.symbol_declaration.path \notin unreadable)

\* the scored candidates of search_declarations (lines 166-179): the records
\* stored under the found keys, in the order of the keys
scored_declarations(index, query, exception_doc) ==
    LET found_keys == make_a_query(index.declarations_search_index, query, exception_doc)
        filtered_found_keys ==
            SelectSeq(found_keys,
                      LAMBDA k : k \in DOMAIN index.declarations
                                    /\ index.declarations[k].meta_path # "")
    IN [i \in 1..Len(filtered_found_keys) |->
            Scored(index.declarations[filtered_found_keys[i]],
                   declaration_score(query, index.declarations[filtered_found_keys[i]]))]

\* AstIndex::search_declarations
search_declarations(index, query, top_n, exception_doc, unreadable) ==
    hydrate(scored_declarations(index, query, exception_doc), top_n, unreadable)

\* Iterator::flatten over the buckets of the found keys
RECURSIVE flatten_buckets(_, _)
flatten_buckets(usages_map, found_keys) ==
    IF found_keys = <<>> THEN <<>>
    ELSE (IF Head(found_keys) \in DOMAIN usages_map THEN usages_map[Head(found_keys)] ELSE <<>>)
            \o flatten_buckets(usages_map, Tail(found_keys))

\* the usage records of every bucket, found by the query or not
usage_candidates_of_all_buckets(index, query, exception_doc) ==
    SelectSeq(flatten_buckets(index.usages, stream(DOMAIN index.usages)),
              LAMBDA u : /\ u.meta_path # ""
                         /\ u.declaration_meta_path # None
                         /\ u.declaration_meta_path \in DOMAIN index.declarations)

\* the usage records search_usages scores (lines 214-231): those with a path,
\* with a declaration path, and with a declaration stored under that path
usage_candidates(index, query, exception_doc) ==
    SelectSeq(flatten_buckets(index.usages,
                              make_a_query(index.usages_search_index, query, exception_doc)),
              LAMBDA u : /\ u.meta_path # ""
                         /\ u.declaration_meta_path # None
                         /\ u.declaration_meta_path \in DOMAIN index.declarations)

\* AstIndex::search_usages
search_usages(index, query, top_n, exception_doc, unreadable) ==
    LET candidates == usage_candidates(index, query, exception_doc)
        filtered_search_results ==
            [i \in 1..Len(candidates) |->
                Scored(index.declarations[candidates[i].declaration_meta_path],
                       jaro_winkler(query, candidates[i].meta_path))]
    IN hydrate(filtered_search_results, top_n, unreadable)

\* the largest top_n of a search
MaxTopN == 3

\* a call of search_declarations: the files in unreadable cannot be read; the
\* call ends with its results or with the panic of make_a_query
SearchDeclarations(query, top_n, exception_doc, unreadable) ==
    /\ found = NoSearch
    /\ found' = [op |-> "search_declarations", query |-> query, top_n |-> top_n,
                 exception_doc |-> exception_doc, unreadable |-> unreadable,
                 results |-> IF make_a_query_panics(query) THEN <<>>
                             ELSE search_declarations(ast_index, query, top_n,
                                                      exception_doc, unreadable),
                 panicked |-> make_a_query_panics(query),
                 ast_module |-> TRUE, index_paths |-> <<>>]
    /\ UNCHANGED ast_index

\* a call of search_usages
SearchUsages(query, top_n, exception_doc, unreadable) ==
    /\ found = NoSearch
    /\ found' = [op |-> "search_usages", query |-> query, top_n |-> top_n,
                 exception_doc |-> exception_doc, unreadable |-> unreadable,
                 results |-> IF make_a_query_panics(query) THEN <<>>
                             ELSE search_usages(ast_index, query, top_n,
                                                exception_doc, unreadable),
                 panicked |-> make_a_query_panics(query),
                 ast_module |-> TRUE, index_paths |-> <<>>]
    /\ UNCHANGED ast_index

\* the caller takes the results
SearchReturn ==
    /\ found # NoSearch
    /\ found' = NoSearch
    /\ UNCHANGED ast_index

\* the documents with a parser
Sources == {doc \in Files : has_parser(doc)}

NextSearch ==
    \/ \E doc \in Files, text \in Texts :
        /\ found = NoSearch
        /\ \E order \in parsed_orders(doc, TRUE, text) : AddOrUpdate(doc, TRUE, text, order)
        /\ UNCHANGED <<pre, last, before, tracked, link_vars, conc_vars, found, walk>>
    \/ \E doc \in Files :
        /\ found = NoSearch
        /\ Remove(doc)
        /\ UNCHANGED <<pre, last, before, tracked, link_vars, conc_vars, found, walk>>
    \/ \E query \in Queries, top_n \in 0..MaxTopN, exception_doc \in Sources \cup {None},
            unreadable \in SUBSET Sources :
        /\ SearchDeclarations(query, top_n, exception_doc, unreadable)
        /\ UNCHANGED <<pre, last, before, tracked, link_vars, conc_vars, walk>>
    \/ \E query \in Queries, top_n \in 0..MaxTopN, exception_doc \in Sources \cup {None},
            unreadable \in SUBSET Sources :
        /\ SearchUsages(query, top_n, exception_doc, unreadable)
        /\ UNCHANGED <<pre, last, before, tracked, link_vars, conc_vars, walk>>
    \/ SearchReturn /\ UNCHANGED <<pre, last, before, tracked, link_vars, conc_vars, walk>>

SpecSearch == Init /\ [][NextSearch]_vars

\* the keys of a per-file index that no file but F has
only_of(search_index, F) ==
    {k \in keys_of(search_index, F) :
        \A G \in (DOMAIN search_index) \ {F} : k \notin search_index[G]}

\* C10: a search with the exception file F returns no result derived from a key
\* that F alone contributed: no declaration under such a key, and no declaration
\* reached only through a usage record of F, also when that record lies in a
\* bucket found through another file's keyset.
C10_ExceptionFileMasked ==
    found.exception_doc # None =>
        \A i \in 1..Len(found.results) :
            LET r == found.results[i]
                F == found.exception_doc
            IN CASE found.op = "search_declarations" ->
                        r.symbol_declaration.meta_path
                            \notin only_of(ast_index.declarations_search_index, F)
                 [] found.op = "search_usages" ->
                        \E k \in DOMAIN ast_index.usages :
                            \E j \in 1..Len(ast_index.usages[k]) :
                                LET u == ast_index.usages[k][j] IN
                                /\ u.doc # F
                                /\ matches(found.query, k)
                                /\ u.declaration_meta_path \in DOMAIN ast_index.declarations
                                /\ ast_index.declarations[u.declaration_meta_path]
                                    = r.symbol_declaration
                                /\ jaro_winkler(found.query, u.meta_path) = r.sim_to_query
                 [] OTHER -> TRUE

\* C11: the results of search_declarations and of search_usages are in
\* non-increasing order of score, also when selected candidates were dropped
\* because their content could not be read.
C11_ScoresNonIncreasing ==
    \A i \in 1..(Len(found.results) - 1) :
        found.results[i].sim_to_query >= found.results[i + 1].sim_to_query

\* three candidates of three scores were selected, the lowest could not be
\* read and the other two were returned
C11_Witness ==
    /\ found.op = "search_declarations"
    /\ found.top_n = 3
    /\ found.unreadable # {}
    /\ Len(found.results) = 2
    /\ found.results[1].sim_to_query > found.results[2].sim_to_query
    /\ Len(search_declarations(ast_index, found.query, found.top_n, found.exception_doc, {})) = 3

\* the candidates of the declaration search in progress
candidates == scored_declarations(ast_index, found.query, found.exception_doc)

\* the candidates the search in progress did not return
not_returned ==
    {j \in 1..Len(candidates) :
        \A i \in 1..Len(found.results) :
            found.results[i].symbol_declaration # candidates[j].symbol_declaration}

\* C12: search_declarations returns at most top_n results; fewer than top_n
\* candidates score above a returned result, and no readable candidate that was
\* not returned scores above a returned one; with every candidate readable and
\* at least top_n candidates, it returns exactly top_n results.
C12_TopN ==
    found.op = "search_declarations" =>
        /\ Len(found.results) <= found.top_n
        /\ \A i \in 1..Len(found.results) :
            /\ Cardinality({j \in 1..Len(candidates) :
                    candidates[j].sim_to_query > found.results[i].sim_to_query}) < found.top_n
            /\ \A j \in not_returned :
                    candidates[j].symbol_declaration.path \notin found.unreadable
                        => found.results[i].sim_to_query >= candidates[j].sim_to_query
        /\ ((\A j \in 1..Len(candidates) :
                    candidates[j].symbol_declaration.path \notin found.unreadable)
                /\ Len(candidates) >= found.top_n)
            => Len(found.results) = found.top_n

\* two of three readable candidates were returned, and the third scores lower
C12_Witness ==
    /\ found.op = "search_declarations"
    /\ found.top_n = 2
    /\ found.unreadable = {}
    /\ Len(candidates) = 3
    /\ Len(found.results) = 2
    /\ \E j \in not_returned : candidates[j].sim_to_query < found.results[2].sim_to_query

\* what the search in progress selected: its results had every file been readable
selected ==
    CASE found.op = "search_declarations" ->
            search_declarations(ast_index, found.query, found.top_n, found.exception_doc, {})
      [] found.op = "search_usages" ->
            search_usages(ast_index, found.query, found.top_n, found.exception_doc, {})
      [] OTHER -> <<>>

\* C13: a selected result whose file cannot be read is left out alone: the
\* search returns the other selected results, all of them and in the order of
\* their selection.
C13_HydrationPerResult ==
    found.results =
        SelectSeq(selected, LAMBDA r : r.symbol_declaration.path \notin found.unreadable)

\* of three selected results the first could not be read, and the other two
\* were returned in their order
C13_Witness ==
    /\ found.op \in {"search_declarations", "search_usages"}
    /\ Len(selected) = 3
    /\ selected[1].symbol_declaration.path \in found.unreadable
    /\ found.results = <<selected[2], selected[3]>>
    /\ selected[2] # selected[3]

\* the usage records in the buckets whose key matches the query: <<key, position>>
matched_usages ==
    {p \in UNION {{k} \X (1..Len(ast_index.usages[k])) : k \in DOMAIN ast_index.usages} :
        matches(found.query, p[1])}

\* the usage record at <<key, position>>
usage_at(p) == ast_index.usages[p[1]][p[2]]

\* the matched usages with a declaration path that has a record in the global map
resolved_usages ==
    {p \in matched_usages :
        /\ usage_at(p).declaration_meta_path # None
        /\ usage_at(p).declaration_meta_path \in DOMAIN ast_index.declarations}

\* C14: every result of search_usages is the record the global declarations map
\* holds under the declaration path of a usage whose path matches the query;
\* there are no more results than such usages, so a usage without a declaration
\* path, or with one the map has no record for, gives no result.
C14_UsageResultsAreDeclarations ==
    found.op = "search_usages" =>
        /\ \A i \in 1..Len(found.results) :
            \E p \in resolved_usages :
                /\ ast_index.declarations[usage_at(p).declaration_meta_path]
                    = found.results[i].symbol_declaration
                /\ jaro_winkler(found.query, usage_at(p).meta_path) = found.results[i].sim_to_query
        /\ Len(found.results) <= Cardinality(resolved_usages)
        /\ (found.exception_doc = None /\ found.unreadable = {})
            => Len(found.results) = IF found.top_n < Cardinality(resolved_usages)
                                    THEN found.top_n ELSE Cardinality(resolved_usages)

\* two usages match: one has no declaration path and gives no result, the
\* other gives the declaration stored under its path
C14_Witness ==
    /\ found.op = "search_usages"
    /\ found.top_n = 3
    /\ found.exception_doc = None /\ found.unreadable = {}
    /\ Len(found.results) = 1
    /\ \E p \in matched_usages : usage_at(p).declaration_meta_path = None
    /\ \E p \in resolved_usages :
            ast_index.declarations[usage_at(p).declaration_meta_path].path # usage_at(p).doc

\* C16: with a declaration of foo in the keysets of two indexed files, a search
\* of the declarations for "foo" with top_n of 2 or more, no exception file and
\* every file readable returns two results, one of each file, with scores
\* above 0.
C16_SameNameInTwoFiles ==
    (/\ found.op = "search_declarations"
     /\ found.query = "foo"
     /\ found.top_n >= 2
     /\ found.exception_doc = None
     /\ found.unreadable = {}
     /\ \A F \in Sources : "foo" \in keys_of(ast_index.declarations_search_index, F))
    => /\ Len(found.results) = 2
       /\ {found.results[i].symbol_declaration.path : i \in 1..Len(found.results)} = Sources
       /\ \A i \in 1..Len(found.results) : found.results[i].sim_to_query > 0

\* the indexes that two calls of add_or_update leave, one for each source file
\* in either order, from the empty index
after_two_adds ==
    UNION {UNION {UNION {UNION {
        {add_or_update(add_or_update(init, F, TRUE, s, o).index, G, TRUE, t, q).index :
            q \in parsed_orders(G, TRUE, t)} :
            o \in parsed_orders(F, TRUE, s)} :
            t \in Texts} :
            s \in Texts} :
            F \in Sources, G \in Sources}

\* two buckets hold the same usage records, each as often as the other
same_records(bucket, other) ==
    /\ Len(bucket) = Len(other)
    /\ \A i \in 1..Len(bucket) :
        Cardinality({j \in 1..Len(bucket) : bucket[j] = bucket[i]})
            = Cardinality({j \in 1..Len(other) : other[j] = bucket[i]})

\* two indexes of the same contents: the same declarations, the same keysets
\* and in every bucket the same usage records, in whatever order
same_contents(index, other) ==
    /\ index.declarations = other.declarations
    /\ index.declarations_search_index = other.declarations_search_index
    /\ index.usages_search_index = other.usages_search_index
    /\ DOMAIN index.usages = DOMAIN other.usages
    /\ \A k \in DOMAIN index.usages : same_records(index.usages[k], other.usages[k])

\* C20: the results of a search are those of the same search over any index of
\* the same contents, whatever the order in which a bucket holds its records,
\* also with equal scores at the cut-off.
C20_ResultIndependentOfOrder ==
    \A other \in after_two_adds :
        same_contents(ast_index, other) =>
            CASE found.op = "search_declarations" ->
                    found.results = search_declarations(other, found.query, found.top_n,
                                                        found.exception_doc, found.unreadable)
              [] found.op = "search_usages" ->
                    found.results = search_usages(other, found.query, found.top_n,
                                                  found.exception_doc, found.unreadable)
              [] OTHER -> TRUE

\* C25: search_declarations and search_usages return a list of results,
\* empty or not, for every query string and every index; none makes them abort.
C25_SearchAlwaysReturns ==
    found.op \in {"search_declarations", "search_usages"} => ~found.panicked

-----------------------------------------------------------------------------
(* The symbol-path completer (at_commands/at_params.rs)                    *)

\* the values typed after the command
Values == {"Array", "print", "/foo"}

\* value.starts_with("/")
starts_with_slash(value) == value = "/foo"

\* f.split("::").dropping(1).join("::") for the paths of the index: the path
\* without its first segment
filename(f) ==
    CASE f = "Array::print" -> "print"
      [] OTHER -> ""

\* strsim::normalized_damerau_levenshtein in thousandths, rounded down:
\* 1 - distance / max(len(a), len(b)), and 1 for two empty strings
normalized_damerau_levenshtein(a, b) ==
    CASE a = b -> 1000
      [] a = "foo" /\ b = "/foo" -> 750
      [] a = "Array::print" /\ b \in {"Array", "print"} -> 416
      [] a = "Array" /\ b = "print" -> 200
      [] a = "print" /\ b = "Array" -> 200
      [] a = "bar" /\ b = "Array" -> 200
      [] OTHER -> 0

\* AstIndex::get_indexed_symbol_paths: the keys of the global declarations map
\* in the iteration order of the map
get_indexed_symbol_paths(search_index) == Orders(DOMAIN search_index.declarations)

\* the pairs (f, similarity) of mapped_paths
mapped_paths(index_paths, value) ==
    [i \in 1..Len(index_paths) |->
        Scored(index_paths[i],
               normalized_damerau_levenshtein(
                   IF starts_with_slash(value) THEN index_paths[i]
                   ELSE filename(index_paths[i]),
                   value))]

\* the rest of complete: sorted_by ascending, rev, the paths, take(top_n)
complete(index_paths, value, top_n) ==
    LET sorted_paths == take(rev(sort_by_dist(mapped_paths(index_paths, value))), top_n)
    IN [i \in 1..Len(sorted_paths) |-> sorted_paths[i].symbol_declaration]

\* complete up to the end of the match on the locked ast_module: index_paths is
\* read under the lock, or is empty when there is no module
CompleteRead(value, top_n, ast_module, index_paths) ==
    /\ found = NoSearch
    /\ found' = [NoSearch EXCEPT !.op = "index_paths", !.query = value, !.top_n = top_n,
                                 !.ast_module = ast_module,
                                 !.index_paths = IF ast_module THEN index_paths ELSE <<>>]
    /\ UNCHANGED ast_index

\* complete from mapped_paths to its return, the lock released
CompleteSort ==
    /\ found.op = "index_paths"
    /\ found' = [found EXCEPT !.op = "complete",
                              !.results = complete(found.index_paths, found.query,
                                                   found.top_n)]
    /\ UNCHANGED ast_index

\* the caller takes the completions
CompleteReturn ==
    /\ found.op = "complete"
    /\ found' = NoSearch
    /\ UNCHANGED ast_index

NextComplete ==
    \/ \E doc \in Files, text \in Texts :
        /\ \E order \in parsed_orders(doc, TRUE, text) : AddOrUpdate(doc, TRUE, text, order)
        /\ UNCHANGED <<pre, last, before, tracked, link_vars, conc_vars, found, walk>>
    \/ \E doc \in Files :
        /\ Remove(doc)
        /\ UNCHANGED <<pre, last, before, tracked, link_vars, conc_vars, found, walk>>
    \/ \E value \in Values, top_n \in 0..MaxTopN, ast_module \in BOOLEAN,
            index_paths \in get_indexed_symbol_paths(ast_index) :
        /\ CompleteRead(value, top_n, ast_module, index_paths)
        /\ UNCHANGED <<pre, last, before, tracked, link_vars, conc_vars, walk>>
    \/ CompleteSort /\ UNCHANGED <<pre, last, before, tracked, link_vars, conc_vars, walk>>
    \/ CompleteReturn /\ UNCHANGED <<pre, last, before, tracked, link_vars, conc_vars, walk>>

SpecComplete == Init /\ [][NextComplete]_vars

\* C26: complete returns at most top_n strings, each a key of the global
\* declarations map when the index was read, in the order of non-increasing
\* similarity of the string to the typed value; without an AST index it returns
\* the empty list.
C26_CompleteRanksIndexedPaths ==
    found.op = "complete" =>
        /\ Len(found.results) <= found.top_n
        /\ \A i \in 1..Len(found.results) :
            \E j \in 1..Len(found.index_paths) : found.results[i] = found.index_paths[j]
        /\ ~found.ast_module => found.results = <<>>
        /\ \A i \in 1..(Len(found.results) - 1) :
            normalized_damerau_levenshtein(found.results[i], found.query)
                >= normalized_damerau_levenshtein(found.results[i + 1], found.query)

-----------------------------------------------------------------------------
(* get_namespace on its own (treesitter/parsers/cpp.rs)                    *)

\* the most ancestors of a node
MaxDepth == 2

\* Node::kind() of an ancestor
Kinds == {"namespace_definition", "class_specifier", "struct_specifier", "function_definition"}

\* the kinds of the children of an ancestor, in the order of child(i)
ChildKinds ==
    { <<>>,
      <<"namespace", "namespace_identifier", "declaration_list">>,
      <<"class", "type_identifier", "field_declaration_list">>,
      <<"struct", "field_declaration_list">>,
      <<"namespace", "nested_namespace_specifier", "declaration_list">>,
      <<"class", "type_identifier", "type_identifier">>,
      <<"namespace_identifier", "type_identifier">> }

\* the ancestors of a node from its parent up to the root
Ancestors ==
    UNION {[1..n -> [kind : Kinds, children : ChildKinds]] : n \in 0..MaxDepth}

\* text.slice(child.byte_range()) of child i of the ancestor at a level: the
\* text is named by the place of the child
slice(level, i) == <<level, i>>

\* the loops of lines 157-164 and 168-175: the text of the first child of the
\* kind, or nothing
first_child(node, level, kind) ==
    LET at == {i \in 1..Len(node.children) : node.children[i] = kind}
    IN IF at = {} THEN <<>>
       ELSE <<slice(level, CHOOSE i \in at : \A j \in at : i <= j)>>

\* what one turn of the while loop pushes (lines 154-178)
pushed(node, level) ==
    CASE node.kind = "namespace_definition" -> first_child(node, level, "namespace_identifier")
      [] node.kind \in {"class_specifier", "struct_specifier"} ->
            first_child(node, level, "type_identifier")
      [] OTHER -> <<>>

\* the while loop of get_namespace from the ancestor at a level up to the root
RECURSIVE climb(_, _)
climb(ancestors, level) ==
    IF level > Len(ancestors) THEN <<>>
    ELSE pushed(ancestors[level], level) \o climb(ancestors, level + 1)

\* get_namespace without namespaces.reverse()
get_namespace_innermost_first(ancestors) == climb(ancestors, 1)

\* CppParser::get_namespace, called with the parent of a node
get_namespace(ancestors) == rev(climb(ancestors, 1))

InitNamespace ==
    /\ ast_index = init
    /\ pre = init
    /\ last = NoOp
    /\ before = NoOp
    /\ tracked = EmptyMap
    /\ link_in = NoLink
    /\ link_out = <<>>
    /\ writer = IdleWriter
    /\ reader = IdleReader
    /\ stable = NoWrite
    /\ found = NoSearch
    /\ \E ancestors \in Ancestors :
        walk = [ancestors |-> ancestors, namespaces |-> <<>>, returned |-> FALSE]

\* a call of get_namespace
GetNamespace ==
    /\ ~walk.returned
    /\ walk' = [walk EXCEPT !.namespaces = get_namespace(walk.ancestors), !.returned = TRUE]
    /\ UNCHANGED <<index_vars, link_vars, conc_vars, found>>

NextNamespace == GetNamespace

SpecNamespace == InitNamespace /\ [][NextNamespace]_vars

\* the levels of the ancestors that are a namespace, class or struct with a
\* child that names them, from the root down to the parent
named_scopes ==
    LET named(level) ==
            LET node == walk.ancestors[level] IN
            \/ /\ node.kind = "namespace_definition"
               /\ \E i \in 1..Len(node.children) : node.children[i] = "namespace_identifier"
            \/ /\ node.kind \in {"class_specifier", "struct_specifier"}
               /\ \E i \in 1..Len(node.children) : node.children[i] = "type_identifier"
    IN SelectSeq([i \in 1..Len(walk.ancestors) |-> Len(walk.ancestors) + 1 - i], named)

\* C22: get_namespace returns one name for every namespace, class or struct
\* ancestor that has a child naming it, the name of the outermost first, each
\* name the text of a naming child of its ancestor, and nothing else.
C22_NamespaceOutermostFirst ==
    walk.returned =>
        /\ Len(walk.namespaces) = Len(named_scopes)
        /\ \A n \in 1..Len(named_scopes) :
            LET level == named_scopes[n]
                node == walk.ancestors[level]
            IN \E i \in 1..Len(node.children) :
                /\ walk.namespaces[n] = slice(level, i)
                /\ node.children[i] = IF node.kind = "namespace_definition"
                                      THEN "namespace_identifier" ELSE "type_identifier"

\* a class in a namespace, both named: the name of the namespace comes first
C22_Witness ==
    /\ walk.returned
    /\ Len(walk.ancestors) = 2
    /\ walk.ancestors[1].kind = "class_specifier"
    /\ walk.ancestors[2].kind = "namespace_definition"
    /\ walk.namespaces = <<slice(2, 2), slice(1, 2)>>

-----------------------------------------------------------------------------
(* The linker on its own                                                   *)

\* the rows of a file: 0..MaxRow
MaxRow == 2

\* the most declarations and usages of a file handed to the linker
MaxLinkDeclarations == 2

MaxLinkUsages == 1

\* the symbol paths of the declarations handed to the linker
LinkPaths == {<<"A", "A::b", "A::b::c", "d">>[i] : i \in 1..MaxLinkDeclarations}

\* the row ranges: start_point.row <= end_point.row
Ranges == {r \in (0..MaxRow) \X (0..MaxRow) : r[1] <= r[2]}

\* the declaration maps of a file
LinkDeclarations ==
    UNION {[keys -> Ranges] : keys \in SUBSET LinkPaths}

\* the usage lists of a file
LinkUsages ==
    UNION {[1..n -> Ranges] : n \in 0..MaxLinkUsages}

InitLink ==
    /\ ast_index = init
    /\ pre = init
    /\ last = NoOp
    /\ before = NoOp
    /\ tracked = EmptyMap
    /\ writer = IdleWriter
    /\ reader = IdleReader
    /\ stable = NoWrite
    /\ found = NoSearch
    /\ walk = NoWalk
    /\ \E d \in LinkDeclarations, u \in LinkUsages :
        \E order \in Orders(DOMAIN d) :
            link_in =
                [declarations |-> [k \in DOMAIN d |-> Decl(k, k, "a.cpp", d[k][1], d[k][2])],
                 usages |-> [i \in DOMAIN u |-> Usage("u", "a.cpp", u[i][1], u[i][2])],
                 order |-> order]
    /\ link_out = <<>>

\* the linker has run
linked == link_out # <<>>

\* a call of link_declarations_to_usages
Link ==
    /\ ~linked
    /\ link_in.usages # <<>>
    /\ link_out' = link_declarations_to_usages(link_in.declarations, link_in.usages, link_in.order)
    /\ UNCHANGED <<index_vars, conc_vars, found, walk, link_in>>

NextLink == Link

SpecLink == InitLink /\ [][NextLink]_vars

\* the declarations that lexically enclose a usage
enclosing(declarations, usage) ==
    {k \in DOMAIN declarations : within_range(declarations[k], usage)}

\* the row-span of a declaration
row_span(declaration) == declaration.end_row - declaration.start_row

\* C8: a usage that two or more declarations of different row-spans enclose is
\* linked to an enclosing declaration of the smallest row-span, whatever the
\* iteration order of the declaration map.
C8_LinksInnermost ==
    linked =>
        \A i \in 1..Len(link_out) :
            LET around == enclosing(link_in.declarations, link_in.usages[i])
            IN (\E j, k \in around :
                    row_span(link_in.declarations[j]) # row_span(link_in.declarations[k]))
                => /\ link_out[i].declaration_meta_path \in around
                   /\ \A k \in around :
                        row_span(link_in.declarations[link_out[i].declaration_meta_path])
                            <= row_span(link_in.declarations[k])

\* C19: after linking, a usage has no declaration path exactly when no
\* declaration of the file starts at or above its first row and ends at or
\* below its last row; otherwise its declaration path is the path of such a
\* declaration.
C19_LinkedIffEnclosed ==
    linked =>
        \A i \in 1..Len(link_out) :
            LET U == link_in.usages[i]
                around == {k \in DOMAIN link_in.declarations :
                            /\ link_in.declarations[k].start_row <= U.start_row
                            /\ U.end_row <= link_in.declarations[k].end_row}
            IN /\ link_out[i].declaration_meta_path = None <=> around = {}
               /\ around # {} => link_out[i].declaration_meta_path \in around

\* of two declarations the one iterated first does not enclose the usage and
\* the other does: the usage is linked to the other
C19_Witness ==
    /\ linked
    /\ Len(link_in.order) = 2
    /\ ~within_range(link_in.declarations[link_in.order[1]], link_in.usages[1])
    /\ link_in.declarations[link_in.order[1]].start_row <= link_in.usages[1].start_row
    /\ link_out[1].declaration_meta_path = link_in.order[2]

-----------------------------------------------------------------------------
(* Properties of add_or_update and remove                                  *)

\* the declaration paths and the usage paths of a text
declaration_paths(text) == DOMAIN parse_declarations(text, None).value

usage_paths(text) ==
    LET usages == parse_usages(text, None).value
    IN {usages[i].meta_path : i \in 1..Len(usages)}

\* the documents with a keyset
indexed(index) ==
    (DOMAIN index.declarations_search_index) \cup (DOMAIN index.usages_search_index)

\* the last operation was a successful add_or_update
added == last.op = "add_or_update" /\ last.res = "ok"

\* C1: when add_or_update fails for want of an adapter, on reading the file or
\* on parsing it, the four structures of the index are as they were before the
\* call.
C1_FailedAddKeepsIndex ==
    (last.op = "add_or_update"
        /\ last.res \in {"unsupported_language", "io_error", "parse_error"})
    => ast_index = pre

\* a parse error on a document that was indexed with declarations and usages
C1_Witness ==
    /\ last.op = "add_or_update"
    /\ last.res = "parse_error"
    /\ keys_of(ast_index.declarations_search_index, last.doc) # {}
    /\ keys_of(ast_index.usages_search_index, last.doc) # {}
    /\ keys_of(ast_index.declarations_search_index, last.doc) \subseteq DOMAIN ast_index.declarations

\* C3: every key of a file's declaration keyset is in the global declarations
\* map, and the record stored under it belongs to that file.
C3_DeclarationKeysetOwned ==
    \A F \in DOMAIN ast_index.declarations_search_index :
        \A k \in ast_index.declarations_search_index[F] :
            /\ k \in DOMAIN ast_index.declarations
            /\ ast_index.declarations[k].path = F

\* C4: every key of a file's usage keyset has a bucket in the global usages
\* map, and the bucket holds a usage record whose occurrence lies in that file.
C4_UsageKeysetOwned ==
    \A F \in DOMAIN ast_index.usages_search_index :
        \A k \in ast_index.usages_search_index[F] :
            /\ k \in DOMAIN ast_index.usages
            /\ \E i \in 1..Len(ast_index.usages[k]) : ast_index.usages[k][i].doc = F

\* F is not indexed and no indexed file shares a declaration or usage path
\* with the text
fresh(index, F, text) ==
    /\ F \notin indexed(index)
    /\ \A G \in indexed(index) :
        /\ keys_of(index.declarations_search_index, G) \cap declaration_paths(text) = {}
        /\ keys_of(index.usages_search_index, G) \cap usage_paths(text) = {}

\* C5: from a state where F is not indexed and shares no symbol path with an
\* indexed file, a successful add_or_update(F) followed by remove(F) leaves the
\* four structures as they were before the add.
C5_RemovalRoundTrip ==
    [][(added /\ fresh(pre, last.doc, last.text)
            /\ last'.op = "remove" /\ last'.doc = last.doc)
        => ast_index' = pre]_vars

\* remove(F) right after the add of an F with declarations and usages, beside
\* another indexed file with entries of its own
C5_Witness ==
    /\ last.op = "remove"
    /\ before.op = "add_or_update" /\ before.res = "ok" /\ before.doc = last.doc
    /\ fresh(ast_index, last.doc, before.text)
    /\ declaration_paths(before.text) # {} /\ usage_paths(before.text) # {}
    /\ declaration_paths(before.text) \subseteq DOMAIN pre.declarations
    /\ usage_paths(before.text) \subseteq DOMAIN pre.usages
    /\ ast_index.declarations # EmptyMap /\ ast_index.usages # EmptyMap

\* C6: a second add_or_update(F) on unchanged contents leaves the global
\* declarations and usages maps equal to what they were after the first.
C6_ReplacementIdempotent ==
    (added /\ before.op = "add_or_update" /\ before.res = "ok"
        /\ before.doc = last.doc /\ before.text = last.text)
    => (ast_index.declarations = pre.declarations /\ ast_index.usages = pre.usages)

\* C7: after a successful add_or_update(F) of an indexed F, F's keysets are
\* the paths of the new contents, every new path is in its global map, and a
\* path that only F's previous version had is in neither global map.
C7_ReplaceByFile ==
    (added /\ last.doc \in indexed(pre)) =>
        LET F == last.doc
            old == keys_of(pre.declarations_search_index, F) \cup keys_of(pre.usages_search_index, F)
            new == declaration_paths(last.text) \cup usage_paths(last.text)
            others == UNION {keys_of(pre.declarations_search_index, G)
                                \cup keys_of(pre.usages_search_index, G) : G \in indexed(pre) \ {F}}
        IN /\ F \in DOMAIN ast_index.declarations_search_index
           /\ F \in DOMAIN ast_index.usages_search_index
           /\ ast_index.declarations_search_index[F] = declaration_paths(last.text)
           /\ ast_index.usages_search_index[F] = usage_paths(last.text)
           /\ declaration_paths(last.text) \subseteq DOMAIN ast_index.declarations
           /\ usage_paths(last.text) \subseteq DOMAIN ast_index.usages
           /\ \A p \in old \ (new \cup others) :
                p \notin DOMAIN ast_index.declarations /\ p \notin DOMAIN ast_index.usages

\* an indexed file re-added with other declarations and usages: paths of the
\* old version are gone, paths of the new one came
C7_Witness ==
    /\ added
    /\ last.doc \in indexed(pre)
    /\ keys_of(pre.declarations_search_index, last.doc) \ declaration_paths(last.text) # {}
    /\ keys_of(pre.usages_search_index, last.doc) \ usage_paths(last.text) # {}
    /\ declaration_paths(last.text) \ keys_of(pre.declarations_search_index, last.doc) # {}
    /\ usage_paths(last.text) \ keys_of(pre.usages_search_index, last.doc) # {}
    /\ keys_of(pre.declarations_search_index, last.doc) \subseteq DOMAIN pre.declarations
    /\ indexed(pre) # {last.doc}

\* C15: get_symbols_by_file_path(F) fails exactly when F was never added with
\* success or was removed since; otherwise it returns one record for every path
\* of F's declaration keyset.
C15_SymbolsByFile ==
    last.op = "get_symbols_by_file_path" =>
        LET symbols == get_symbols_by_file_path(ast_index, last.doc)
            keyset == keys_of(ast_index.declarations_search_index, last.doc)
        IN /\ last.res = "not_indexed" <=> last.doc \notin DOMAIN tracked
           /\ last.res = "ok" =>
                /\ Len(symbols.value) = Cardinality(keyset)
                /\ \A k \in keyset :
                    \E i \in 1..Len(symbols.value) : symbols.value[i].meta_path = k

\* C17: when add_or_update(F) returns an error, whichever it is, F is as it
\* was before the call: it has the keysets it had (or none), a file that was
\* absent has changed neither global map, and the entries an indexed file had
\* under the keys of its keysets are all there.
C17_FailureRestoresFile ==
    (last.op = "add_or_update" /\ last.res # "ok") =>
        LET F == last.doc IN
        /\ (F \in DOMAIN ast_index.declarations_search_index)
            <=> (F \in DOMAIN pre.declarations_search_index)
        /\ (F \in DOMAIN ast_index.usages_search_index) <=> (F \in DOMAIN pre.usages_search_index)
        /\ keys_of(ast_index.declarations_search_index, F) = keys_of(pre.declarations_search_index, F)
        /\ keys_of(ast_index.usages_search_index, F) = keys_of(pre.usages_search_index, F)
        /\ F \notin indexed(pre) =>
            (ast_index.declarations = pre.declarations /\ ast_index.usages = pre.usages)
        /\ \A k \in keys_of(pre.declarations_search_index, F) \cap DOMAIN pre.declarations :
            k \in DOMAIN ast_index.declarations /\ ast_index.declarations[k] = pre.declarations[k]
        /\ \A k \in keys_of(pre.usages_search_index, F) \cap DOMAIN pre.usages :
            k \in DOMAIN ast_index.usages /\ ast_index.usages[k] = pre.usages[k]

\* an indexed file with two declarations and two usages cannot be read when it
\* is added again, beside another indexed file
C17_Witness ==
    /\ last.op = "add_or_update"
    /\ last.res = "io_error"
    /\ Cardinality(keys_of(pre.declarations_search_index, last.doc)) = 2
    /\ keys_of(pre.declarations_search_index, last.doc) \subseteq DOMAIN ast_index.declarations
    /\ keys_of(pre.usages_search_index, last.doc) # {}
    /\ keys_of(pre.usages_search_index, last.doc) \subseteq DOMAIN ast_index.usages
    /\ indexed(ast_index) = Sources

\* C18: remove(F) returns Ok; after it F has no keyset, the other files have
\* the keysets they had, each global map has lost the keys of F's keyset and no
\* other, with the values of the remaining keys unchanged; the index of a
\* remove(F) of a file that is not indexed is the index before.
C18_RemoveFrame ==
    last.op = "remove" =>
        LET F == last.doc IN
        /\ last.res = "ok"
        /\ F \notin indexed(ast_index)
        /\ \A G \in Files \ {F} :
            /\ (G \in DOMAIN ast_index.declarations_search_index)
                <=> (G \in DOMAIN pre.declarations_search_index)
            /\ (G \in DOMAIN ast_index.usages_search_index)
                <=> (G \in DOMAIN pre.usages_search_index)
            /\ keys_of(ast_index.declarations_search_index, G)
                = keys_of(pre.declarations_search_index, G)
            /\ keys_of(ast_index.usages_search_index, G) = keys_of(pre.usages_search_index, G)
        /\ DOMAIN ast_index.declarations
            = (DOMAIN pre.declarations) \ keys_of(pre.declarations_search_index, F)
        /\ \A k \in DOMAIN ast_index.declarations : ast_index.declarations[k] = pre.declarations[k]
        /\ DOMAIN ast_index.usages = (DOMAIN pre.usages) \ keys_of(pre.usages_search_index, F)
        /\ \A k \in DOMAIN ast_index.usages : ast_index.usages[k] = pre.usages[k]
        /\ F \notin indexed(pre) => ast_index = pre

\* remove(F) of a file with declarations and usages, beside a file whose
\* declarations and usages stay
C18_Witness ==
    /\ last.op = "remove"
    /\ keys_of(pre.declarations_search_index, last.doc) # {}
    /\ keys_of(pre.usages_search_index, last.doc) # {}
    /\ DOMAIN ast_index.declarations # DOMAIN pre.declarations
    /\ DOMAIN ast_index.usages # DOMAIN pre.usages
    /\ ast_index.declarations # EmptyMap
    /\ ast_index.usages # EmptyMap

\* C23: the files with a declaration keyset are the files with a usage keyset.
C23_KeysetsPaired ==
    DOMAIN ast_index.declarations_search_index = DOMAIN ast_index.usages_search_index

\* after successful and failed calls of add_or_update and a remove: one file
\* has both keysets, the file removed last has neither
C23_Witness ==
    /\ last.op = "remove"
    /\ before.op = "add_or_update" /\ before.res # "ok"
    /\ last.doc \in indexed(pre)
    /\ last.doc \notin indexed(ast_index)
    /\ DOMAIN ast_index.declarations_search_index # {}
    /\ DOMAIN ast_index.usages_search_index # {}

\* the usage records the last successful add_or_update of F produced
produced(F) ==
    UNION {LET usages == link_declarations_to_usages(
                            parse_declarations(tracked[F], F).value,
                            parse_usages(tracked[F], F).value, order)
           IN {usages[i] : i \in 1..Len(usages)} :
           order \in parsed_orders(F, TRUE, tracked[F])}

\* C24: every key of the global declarations map is in the declaration keyset
\* of the file of its record, which is indexed; every usage record of every
\* bucket lies in an indexed file whose usage keyset has the key of the bucket,
\* and is a record of the last successful add_or_update of that file.
C24_NoOrphans ==
    /\ \A k \in DOMAIN ast_index.declarations :
        LET F == ast_index.declarations[k].path IN
        /\ F \in DOMAIN tracked
        /\ k \in keys_of(ast_index.declarations_search_index, F)
    /\ \A k \in DOMAIN ast_index.usages :
        \A i \in 1..Len(ast_index.usages[k]) :
            LET F == ast_index.usages[k][i].doc IN
            /\ F \in DOMAIN tracked
            /\ k \in keys_of(ast_index.usages_search_index, F)
            /\ ast_index.usages[k][i] \in produced(F)

\* two files share a declaration path and a usage path; one of them was added
\* again with other contents and then the other was removed
C24_Witness ==
    /\ last.op = "remove"
    /\ before.op = "add_or_update" /\ before.res = "ok" /\ before.doc # last.doc
    /\ before.doc \in indexed(ast_index)
    /\ keys_of(pre.declarations_search_index, last.doc)
            \cap keys_of(pre.declarations_search_index, before.doc) # {}
    /\ keys_of(pre.usages_search_index, last.doc)
            \cap keys_of(pre.usages_search_index, before.doc) # {}

\* C9: the declaration stored under the declaration_symbol_path of a usage in
\* the global usages map lexically encloses the usage.
C9_LinkedDeclarationEncloses ==
    \A k \in DOMAIN ast_index.usages :
        \A i \in 1..Len(ast_index.usages[k]) :
            LET U == ast_index.usages[k][i]
                D == U.declaration_meta_path
            IN (D # None /\ D \in DOMAIN ast_index.declarations)
                => within_range(ast_index.declarations[D], U)

====
